---- MODULE Spec2Model ----
(***************************************************************************)
(* Model of Locally_Archive_AGP_Map.py: the archive pipeline of the main   *)
(* script (classify, package, extract, reconcile Z-enabled layers,         *)
(* normalise identifiers, propagate metadata) and direct calls of          *)
(* extract_existing_mpkx and process_existing_gdb with free arguments.     *)
(*                                                                         *)
(* Names are sequences of one-character strings, so that the regular       *)
(* expression match, the slices and the strip loop act on characters.      *)
(* Engine calls the source wraps in try/except (Describe, CopyFeatures,    *)
(* Project, Delete, metadata reads and writes) and file-system or          *)
(* subprocess calls inside the extractor's try block may raise: each is a  *)
(* nondeterministic choice between success and failure.                    *)
(***************************************************************************)
EXTENDS Integers, Sequences, FiniteSets, TLC

\* ------------------------------------------------------------------ bounds
\* Largest number of layers in the source map.
MaxLayers == 2
\* Largest number of entities in a store handed directly to process_existing_gdb.
MaxEntities == 2
\* Number of successive calls of process_existing_gdb made on a store handed
\* to it directly.
Passes == 2

\* -------------------------------------------------------------- characters
Digit == {"0", "1", "2", "3", "4", "5", "6", "7", "8", "9"}

\* str.isalpha() on one character, over the characters the model uses.
IsAlpha(c) == c \in {"R", "o", "a", "d", "s", "D", "L", "N", "A", "l", "p",
                     "h", "C", "r", "c", "t", "e", "y"}

\* re.search in place of re.match: the tag found anywhere in the name.
MatchTagAnywhere(filename) ==
    \E k \in 1..(Len(filename) - 1) : filename[k] = "L" /\ filename[k + 1] \in Digit

\* re.match('L[0-9]', filename): anchored at the start of the name.
MatchTag(filename) ==
    /\ Len(filename) >= 2
    /\ filename[1] = "L"
    /\ filename[2] \in Digit

\* filename[n:] for n >= 0.
Slice(filename, n) ==
    IF n >= Len(filename) THEN << >> ELSE SubSeq(filename, n + 1, Len(filename))

\* The string literal of line 277. It is not an f-string: its last three
\* characters are "{", "i", "}".
NoAlphaName ==
    <<"N", "o", "_", "A", "l", "p", "h", "a", "_", "C", "h", "a", "r", "a",
      "c", "t", "e", "r", "s", "_", "L", "a", "y", "e", "r", "_", "{", "i", "}">>

\* The while loop of lines 273-279 on the name left after the tag is cut.
\* filename[0] of an empty string raises IndexError.
RECURSIVE StripLoop(_)
StripLoop(filename) ==
    IF filename = << >> THEN [raised |-> TRUE, name |-> << >>]
    ELSE IF IsAlpha(filename[1]) THEN [raised |-> FALSE, name |-> filename]
    ELSE IF Len(filename) = 1 THEN StripLoop(NoAlphaName)
    ELSE StripLoop(Slice(filename, 1))

\* filename[3:] in place of filename[2:].
RepairNameCutThree(filename, i) == StripLoop(Slice(filename, 3))

\* Lines 268-279: the repaired name of a tag-matching entity at position i of
\* the listing (the code never reads i).
RepairName(filename, i) == StripLoop(Slice(filename, 2))

\* Decimal digits of a natural number, as characters (str(i)).
DigitChar(d) == <<"0", "1", "2", "3", "4", "5", "6", "7", "8", "9">>[d + 1]

RECURSIVE Decimal(_)
Decimal(n) == IF n < 10 THEN <<DigitChar(n)>> ELSE Decimal(n \div 10) \o <<DigitChar(n % 10)>>

\* arcpy.ValidateTableName: every character that is neither a letter, a digit
\* nor an underscore becomes an underscore.
ValidateTableName(name) ==
    [k \in 1..Len(name) |->
        IF IsAlpha(name[k]) \/ name[k] \in Digit \/ name[k] = "_" THEN name[k] ELSE "_"]

\* The entity name PackageMap gives the k-th layer (from 0) of the packaged
\* map: the tag "L<k>" before the validated layer name.
PackagedName(k, name) == <<"L">> \o Decimal(k) \o ValidateTableName(name)

\* ------------------------------------------------------------ input domains
Roads == <<"R", "o">>

LayerNames == {Roads, <<"L", "3", "D">>, <<"a", "@">>, <<"@", "3">>}

LayerKinds == {"group", "flat", "z"}

Layer == [name : LayerNames, kind : LayerKinds]

\* Maps of at most n layers with distinct names.
MapsUpTo(n) ==
    {m \in UNION {[1..k -> Layer] : k \in 0..n} :
        \A a, b \in DOMAIN m : a # b => m[a].name # m[b].name}

\* Entity names of a store handed directly to process_existing_gdb.
EntityNames ==
    {Roads,
     <<"L", "3", "R", "o", "@", "#", "a", "d", "s">>,
     <<"L", "9", "3">>,
     <<"L", "9", "@">>,
     <<"L", "3">>,
     <<"L", "0", "L", "1", "R", "o">>,
     <<"R", "o", "a", "L", "3">>}

ListingsUpTo(n) ==
    {l \in UNION {[1..k -> EntityNames] : k \in 0..n} :
        \A a, b \in DOMAIN l : a # b => l[a] # l[b]}

\* Maps handed to a direct call of process_existing_gdb.
DirectMaps == {<< >>, <<[name |-> Roads, kind |-> "flat"]>>}

\* An Extent is <<XMin, YMin, XMax, YMax>>; None is the empty tuple.
None == << >>

Extents == {<<0, 0, 10, 10>>, <<-5, 2, 7, 9>>}

\* Store-level description texts before the run, as sequences of tokens
\* (lines and line breaks); the empty text stands for "" and for None.
Descriptions == {<< >>, <<"Archived map">>}

\* -------------------------------------------------------------------- state
VARIABLES
    entry,            \* "main": the script; "extract", "gdb": a direct call
    layers,           \* map_obj.listLayers(): sequence of [name, kind]
    pc,               \* position of the program
    result,           \* "running", "returned", "raised"
    error,            \* the call that raised, "none" while none has
    store_made,       \* 7-Zip has written a store into the destination
    extent,           \* main's extent / the extractor's extent argument
    gdb_extent,       \* the extent argument of process_existing_gdb
    cleanup_temp,     \* the extractor's cleanup_temp argument
    folder,           \* output_folder exists
    mpkx,             \* the bundle file exists
    temp_7z,          \* temp.7z exists
    gdb_at,           \* "none", "extracted" (where 7-Zip put it), "canonical"
    bundle,           \* entity names held by the store inside the bundle
    store,            \* directory listing of the store: sequence of names
    temp_map,         \* the transient "Temp Map" exists in the project
    caller,           \* who called identify_z_layers: "main" or "package"
    li,               \* loop position of identify_z_layers
    non_z_layers,     \* identify_z_layers' list of layer positions
    z_layers,         \* identify_z_layers' list of layer positions
    probe_failed,     \* layer positions whose Describe raised in this call
    arg_z_layers,     \* the extractor's z_layers argument
    overwriteOutput,  \* arcpy.env.overwriteOutput
    zi,               \* loop position of the Z-enabled layer loop
    scratch,          \* memory\tempCopy exists
    attempted,        \* layers the Z loop has taken up, in order
    succeeded,        \* layers whose Z processing ran to "Done!"
    filenames,        \* the listing the walk yielded
    ni,               \* loop position of the rename loop
    passes,           \* calls of process_existing_gdb finished or raised
    listings,         \* the store's listing after each finished rename loop
    mi,               \* loop position of preserve_metadata
    description,      \* store-level metadata description (tokens)
    gdb_md,           \* what add_extent_metadata met: "unread", "writable",
                      \* "readonly", "error"
    preserved,        \* layer positions whose metadata was copied and saved
    warnings,         \* layer positions named in a "Warning:" line
    stages            \* stages of the pipeline in the order they started

vars == <<entry, layers, pc, result, error, store_made, extent, gdb_extent,
          cleanup_temp, folder,
          mpkx, temp_7z, gdb_at, bundle, store, temp_map, caller, li,
          non_z_layers, z_layers, probe_failed, arg_z_layers, overwriteOutput, zi, scratch,
          attempted, succeeded, filenames, ni, passes, listings, mi,
          description, gdb_md, preserved, warnings, stages>>

\* Variables grouped by the function that owns them.
fsVars == <<folder, mpkx, temp_7z, gdb_at, bundle, store, store_made>>
identifyVars == <<caller, li, non_z_layers, z_layers, probe_failed>>
zVars == <<overwriteOutput, zi, scratch, attempted, succeeded>>
renameVars == <<filenames, ni, passes, listings>>
mdVars == <<mi, description, gdb_md, preserved>>
argVars == <<entry, layers, extent, gdb_extent, cleanup_temp, arg_z_layers>>

\* Positions of the layers of a kind, in map order.
RECURSIVE OfKind(_, _, _)
OfKind(m, kind, k) ==
    IF k > Len(m) THEN << >>
    ELSE (IF m[k].kind = kind THEN <<k>> ELSE << >>) \o OfKind(m, kind, k + 1)

\* The listing of the store PackageMap writes for the layers at positions ls.
PackagedListing(m, ls) == [k \in 1..Len(ls) |-> PackagedName(k - 1, m[ls[k]].name)]

Names(listing) == {listing[k] : k \in DOMAIN listing}

InitCommon ==
    /\ result = "running"
    /\ error = "none"
    /\ store_made = FALSE
    /\ temp_map = FALSE
    /\ caller = "main"
    /\ li = 1
    /\ non_z_layers = << >>
    /\ z_layers = << >>
    /\ probe_failed = {}
    /\ overwriteOutput = FALSE
    /\ zi = 1
    /\ scratch = FALSE
    /\ attempted = << >>
    /\ succeeded = {}
    /\ filenames = << >>
    /\ ni = 1
    /\ passes = 0
    /\ listings = << >>
    /\ mi = 1
    /\ gdb_md = "unread"
    /\ preserved = {}
    /\ warnings = {}
    /\ stages = << >>
    /\ temp_7z = FALSE

\* The script of lines 406-458, before its first statement. The store it
\* will write does not exist yet and has no description.
InitMain ==
    /\ entry = "main"
    /\ layers \in MapsUpTo(MaxLayers)
    /\ pc = "main"
    /\ extent = None
    /\ gdb_extent = None
    /\ cleanup_temp = FALSE
    /\ folder = FALSE
    /\ mpkx = FALSE
    /\ gdb_at = "none"
    /\ bundle = << >>
    /\ store = << >>
    /\ arg_z_layers = << >>
    /\ description = << >>

\* extract_existing_mpkx called on a bundle packaged from the map's layers
\* without Z values, with the map's Z-enabled layers to add.
InitExtract ==
    /\ entry = "extract"
    /\ layers \in MapsUpTo(MaxLayers)
    /\ pc = "extract"
    /\ extent = None
    /\ gdb_extent = None
    /\ cleanup_temp \in BOOLEAN
    /\ folder = TRUE
    /\ mpkx \in BOOLEAN
    /\ gdb_at = "none"
    /\ bundle = PackagedListing(layers, OfKind(layers, "flat", 1))
    /\ store = << >>
    /\ arg_z_layers = OfKind(layers, "z", 1)
    /\ description = << >>

\* process_existing_gdb called on an extracted store.
InitGdb ==
    /\ entry = "gdb"
    /\ layers \in DirectMaps
    /\ pc = "gdb"
    /\ extent = None
    /\ gdb_extent \in {None} \cup Extents
    /\ cleanup_temp = FALSE
    /\ folder = TRUE
    /\ mpkx = FALSE
    /\ \/ gdb_at = "canonical" /\ store \in ListingsUpTo(MaxEntities)
       \/ gdb_at = "none" /\ store = << >>
    /\ bundle = << >>
    /\ arg_z_layers = << >>
    /\ description \in Descriptions

Init == InitCommon /\ (InitMain \/ InitExtract \/ InitGdb)

\* An exception raised by call e leaves the script (lines 456-458) or the
\* function called.
Fatal(e) ==
    /\ pc' = "done"
    /\ result' = "raised"
    /\ error' = e

\* An exception raised by call e inside the extractor's try block.
Caught(e) ==
    /\ pc' = "except"
    /\ error' = e

\* ------------------------------------------------------------------- main
\* Lines 415-433: get_layer_extent (lines 43-51) on the extent layer name,
\* then the timestamped output folder.
MainResolveExtent ==
    /\ pc = "main"
    /\ \E layer_name \in LayerNames :
        IF \E k \in DOMAIN layers : layers[k].name = layer_name /\ layers[k].kind # "group"
        THEN \/ \E e \in Extents :
                  /\ extent' = e
                  /\ folder' = TRUE
                  /\ pc' = "identify"
                  /\ UNCHANGED <<result, error>>
             \/ Fatal("Describe") /\ UNCHANGED <<extent, folder>>
        ELSE Fatal("get_layer_extent") /\ UNCHANGED <<extent, folder>>
    /\ caller' = "main"
    /\ li' = 1
    /\ non_z_layers' = << >>
    /\ z_layers' = << >>
    /\ probe_failed' = {}
    /\ UNCHANGED <<entry, layers, gdb_extent, cleanup_temp, arg_z_layers, mpkx,
                   temp_7z, gdb_at, bundle, store, store_made, temp_map, zVars,
                   renameVars, mdVars, warnings, stages>>

\* A stage is recorded the first time it acts.
Started(stage) == IF \E k \in DOMAIN stages : stages[k] = stage
                  THEN stages ELSE Append(stages, stage)

\* ------------------------------------------------------ identify_z_layers
\* Lines 310-312 without the warning.
ProbeWarnsNone(k) == {}

\* Lines 310-312: the warning for a layer whose Describe raised.
ProbeWarns(k) == {k}

\* Lines 300-312: one turn of the loop. Describe may raise; the layer is then
\* left out of both lists and a warning names it.
IdentifyStep ==
    /\ pc = "identify"
    /\ li <= Len(layers)
    /\ \/ /\ layers[li].kind = "group"
          /\ UNCHANGED <<non_z_layers, z_layers, probe_failed, warnings>>
       \/ /\ layers[li].kind = "z"
          /\ z_layers' = Append(z_layers, li)
          /\ UNCHANGED <<non_z_layers, probe_failed, warnings>>
       \/ /\ layers[li].kind = "flat"
          /\ non_z_layers' = Append(non_z_layers, li)
          /\ UNCHANGED <<z_layers, probe_failed, warnings>>
       \/ /\ layers[li].kind # "group"
          /\ probe_failed' = probe_failed \cup {li}
          /\ warnings' = warnings \cup ProbeWarns(li)
          /\ UNCHANGED <<non_z_layers, z_layers>>
    /\ li' = li + 1
    /\ UNCHANGED <<argVars, pc, result, error, fsVars, temp_map, caller, zVars,
                   renameVars, mdVars, stages>>

\* Line 314, and what the caller does with the two lists: main keeps the
\* Z-enabled list for the extractor (lines 436, 447), package_map goes on to
\* package the list without Z values (lines 96-103).
IdentifyReturn ==
    /\ pc = "identify"
    /\ li > Len(layers)
    /\ IF caller = "main"
       THEN /\ arg_z_layers' = z_layers
            /\ pc' = "package"
       ELSE /\ pc' = "package_map"
            /\ UNCHANGED arg_z_layers
    /\ UNCHANGED <<entry, layers, extent, gdb_extent, cleanup_temp, result, error,
                   fsVars, temp_map, identifyVars, zVars, renameVars, mdVars,
                   warnings, stages>>

\* ------------------------------------------------------------ package_map
\* Lines 87-96: the transient map, then identify_z_layers again.
PackageEnter ==
    /\ pc = "package"
    /\ temp_map' = TRUE
    /\ caller' = "package"
    /\ li' = 1
    /\ non_z_layers' = << >>
    /\ z_layers' = << >>
    /\ probe_failed' = {}
    /\ pc' = "identify"
    /\ stages' = Started("package")
    /\ UNCHANGED <<argVars, result, error, fsVars, zVars, renameVars, mdVars, warnings>>

\* Lines 98-122: the layers without Z values are packaged; the transient map
\* is deleted on both paths. On success main calls the extractor with
\* cleanup_temp=False (lines 442-448).
PackageMap ==
    /\ pc = "package_map"
    /\ temp_map' = FALSE
    /\ \/ /\ mpkx' = TRUE
          /\ bundle' = PackagedListing(layers, non_z_layers)
          /\ cleanup_temp' = FALSE
          /\ pc' = "extract"
          /\ UNCHANGED <<result, error>>
       \/ /\ Fatal("PackageMap")
          /\ UNCHANGED <<mpkx, bundle, cleanup_temp>>
    /\ UNCHANGED <<entry, layers, extent, gdb_extent, arg_z_layers, folder,
                   temp_7z, gdb_at, store, store_made, identifyVars, zVars, renameVars,
                   mdVars, warnings, stages>>

\* -------------------------------------------------- extract_existing_mpkx
\* Lines 330-343, before the try block: the bundle must exist and 7-Zip must
\* be installed (find_7zip_path, lines 63-72).
ExtractEnter ==
    /\ pc = "extract"
    /\ stages' = Started("extract")
    /\ IF ~mpkx
       THEN Fatal("exists")
       ELSE \/ pc' = "copy" /\ UNCHANGED <<result, error>>
            \/ Fatal("find_7zip_path")
    /\ UNCHANGED <<argVars, fsVars, temp_map, identifyVars, zVars, renameVars,
                   mdVars, warnings>>

\* Line 348: shutil.copy2 of the bundle to temp.7z.
ExtractCopy ==
    /\ pc = "copy"
    /\ \/ temp_7z' = TRUE /\ pc' = "unzip" /\ UNCHANGED error
       \/ Caught("copy2") /\ UNCHANGED temp_7z
    /\ UNCHANGED <<argVars, result, folder, mpkx, gdb_at, bundle, store,
                   store_made, temp_map, identifyVars, zVars, renameVars, mdVars, warnings,
                   stages>>

\* Line 352 (extract_7z, lines 136-148): 7-Zip unpacks the bundle into the
\* destination. A bundle of no layers may hold no store; a failed run may
\* have unpacked the store before it failed.
Extract7z ==
    /\ pc = "unzip"
    /\ \/ /\ pc' = "relocate"
          /\ UNCHANGED error
          /\ \/ gdb_at' = "extracted" /\ store' = bundle /\ store_made' = TRUE
             \/ bundle = << >> /\ gdb_at' = "none" /\ UNCHANGED <<store, store_made>>
       \/ /\ Caught("extract_7z")
          /\ \/ gdb_at' = "extracted" /\ store' = bundle /\ store_made' = TRUE
             \/ UNCHANGED <<gdb_at, store, store_made>>
    /\ UNCHANGED <<argVars, result, folder, mpkx, temp_7z, bundle, temp_map,
                   identifyVars, zVars, renameVars, mdVars, warnings, stages>>

\* Lines 358-359: where the extractor goes once the store is relocated.
AfterRelocateNoLoop(zl) == "cleanup"

AfterRelocate(zl) == IF zl # << >> THEN "z_loop" ELSE "cleanup"

\* Lines 355-362: find_geodatabase (lines 163-167) and shutil.move to the
\* canonical path; with Z-enabled layers to add, overwriting is switched on.
ExtractRelocate ==
    /\ pc = "relocate"
    /\ IF gdb_at = "none"
       THEN Caught("find_geodatabase") /\ UNCHANGED <<gdb_at, overwriteOutput>>
       ELSE \/ /\ gdb_at' = "canonical"
               /\ pc' = AfterRelocate(arg_z_layers)
               /\ overwriteOutput' = (overwriteOutput \/ arg_z_layers # << >>)
               /\ UNCHANGED error
            \/ Caught("move") /\ UNCHANGED <<gdb_at, overwriteOutput>>
    /\ zi' = 1
    /\ UNCHANGED <<argVars, result, folder, mpkx, temp_7z, bundle, store,
                   store_made, temp_map, identifyVars, scratch, attempted, succeeded,
                   renameVars, mdVars, warnings, stages>>

\* CopyFeatures into the store: a new entity is listed last, an existing one
\* is overwritten in place.
PutEntity(listing, name) ==
    IF name \in Names(listing) THEN listing ELSE Append(listing, name)

\* The call of lines 365-381 that raises, or "done" when none does.
ZOutcomes == {"done", "copy", "project", "overwrite", "delete"}

\* A failure that leaves the loop and reaches the extractor's handler.
ZNextPcNoCatch(outcome, last) ==
    IF outcome # "done" THEN "except" ELSE IF last THEN "cleanup" ELSE "z_loop"

\* Lines 363, 383-384: a failure is caught inside the loop, which goes on.
ZNextPc(outcome, last) == IF last THEN "cleanup" ELSE "z_loop"

\* Lines 363-384: one turn of the loop over the Z-enabled layers.
ZLayerStep ==
    /\ pc = "z_loop"
    /\ zi <= Len(arg_z_layers)
    /\ LET layer == arg_z_layers[zi]
           feature_name == ValidateTableName(layers[layer].name)
       IN \E outcome \in ZOutcomes :
            /\ attempted' = Append(attempted, layer)
            /\ store' = IF outcome = "copy" THEN store
                        ELSE PutEntity(store, feature_name)
            /\ scratch' = CASE outcome \in {"copy", "project"} -> scratch
                            [] outcome \in {"overwrite", "delete"} -> TRUE
                            [] OTHER -> FALSE
            /\ succeeded' = IF outcome = "done" THEN succeeded \cup {layer}
                            ELSE succeeded
            /\ warnings' = IF outcome = "done" THEN warnings
                           ELSE warnings \cup {layer}
            /\ pc' = ZNextPc(outcome, zi = Len(arg_z_layers))
    /\ zi' = zi + 1
    /\ stages' = Started("reconcile")
    /\ UNCHANGED <<argVars, result, error, folder, mpkx, temp_7z, gdb_at, bundle,
                   store_made, temp_map, identifyVars, overwriteOutput,
                   renameVars, mdVars>>

\* Lines 386-397: the temporary files go when cleanup is asked for, and the
\* canonical path is returned. main hands it to process_existing_gdb with no
\* extent argument (line 451).
ExtractCleanup ==
    /\ pc = "cleanup"
    /\ \/ /\ IF cleanup_temp
             THEN mpkx' = FALSE /\ temp_7z' = FALSE
             ELSE UNCHANGED <<mpkx, temp_7z>>
          /\ IF entry = "main"
             THEN pc' = "gdb" /\ gdb_extent' = None /\ UNCHANGED <<result, error>>
             ELSE pc' = "done" /\ result' = "returned" /\ UNCHANGED <<gdb_extent, error>>
       \/ /\ cleanup_temp
          /\ mpkx' = FALSE
          /\ Caught("remove")
          /\ UNCHANGED <<temp_7z, gdb_extent, result>>
    /\ UNCHANGED <<entry, layers, extent, cleanup_temp, arg_z_layers, folder,
                   gdb_at, bundle, store, store_made, temp_map, identifyVars, zVars,
                   renameVars, mdVars, warnings, stages>>

\* Line 401 with the flag ignored.
TearDownAlways(cleanup, exists) == exists

\* Line 401 with the removal left out.
TearDownNever(cleanup, exists) == FALSE

\* Line 401: whether the handler removes the destination directory.
TearDown(cleanup, exists) == cleanup /\ exists

\* Lines 399-403: the handler of the try block removes the whole destination
\* when cleanup is asked for, and raises again. The bundle lies in the
\* destination, where package_map writes it (line 89), and goes with it.
ExtractExcept ==
    /\ pc = "except"
    /\ IF TearDown(cleanup_temp, folder)
       THEN /\ folder' = FALSE
            /\ mpkx' = FALSE
            /\ temp_7z' = FALSE
            /\ gdb_at' = "none"
            /\ store' = << >>
       ELSE UNCHANGED <<folder, mpkx, temp_7z, gdb_at, store>>
    /\ pc' = "done"
    /\ result' = "raised"
    /\ UNCHANGED <<argVars, error, bundle, store_made, temp_map, identifyVars, zVars, renameVars,
                   mdVars, warnings, stages>>

\* --------------------------------------------------- process_existing_gdb
\* arcpy.management.Rename on the listing: the entity keeps its place. The
\* tool fails when the entity is gone, and when the new name is taken unless
\* overwriting is switched on, in which case the entity of that name goes.
Rename(listing, old, new, overwrite) ==
    IF old \notin Names(listing) \/ (new \in Names(listing) /\ ~overwrite)
    THEN [raised |-> TRUE, listing |-> listing]
    ELSE LET kept == SelectSeq(listing, LAMBDA x : x # new)
         IN [raised |-> FALSE,
             listing |-> [k \in 1..Len(kept) |-> IF kept[k] = old THEN new ELSE kept[k]]]

\* Lines 254-261: the path checks and the walk, which yields the listing.
GdbEnter ==
    /\ pc = "gdb"
    /\ stages' = Started("normalize")
    /\ IF gdb_at # "canonical"
       THEN /\ Fatal("gdb_path")
            /\ UNCHANGED <<filenames, listings>>
       ELSE /\ filenames' = store
            /\ pc' = IF store = << >> THEN "preserve" ELSE "rename"
            /\ listings' = IF store = << >> THEN Append(listings, store) ELSE listings
            /\ UNCHANGED <<result, error>>
    /\ ni' = 1
    /\ mi' = 1
    /\ UNCHANGED <<argVars, fsVars, temp_map, identifyVars, zVars, passes,
                   description, gdb_md, preserved, warnings>>

\* Lines 266-282: one turn of the rename loop, on the entity at position
\* ni - 1 of the listing. After the last turn process_metadata starts.
NormalizeStep ==
    /\ pc = "rename"
    /\ ni <= Len(filenames)
    /\ LET filename == filenames[ni]
           repaired == RepairName(filename, ni - 1)
           renamed == Rename(store, filename, repaired.name, overwriteOutput)
           raised == MatchTag(filename) /\ (repaired.raised \/ renamed.raised)
       IN /\ store' = IF MatchTag(filename) /\ ~raised THEN renamed.listing ELSE store
          /\ IF raised
             THEN /\ Fatal(IF repaired.raised THEN "IndexError" ELSE "Rename")
                  /\ UNCHANGED listings
             ELSE /\ pc' = IF ni = Len(filenames) THEN "preserve" ELSE "rename"
                  /\ listings' = IF ni = Len(filenames)
                                 THEN Append(listings, store') ELSE listings
                  /\ UNCHANGED <<result, error>>
    /\ ni' = ni + 1
    /\ UNCHANGED <<argVars, folder, mpkx, temp_7z, gdb_at, bundle, store_made,
                   temp_map, identifyVars, zVars, filenames, passes, mdVars,
                   warnings, stages>>

\* ------------------------------------------------------ preserve_metadata
\* Line 199 without its warning.
MissingWarnsNone(k) == {}

\* Line 199: the warning for a layer with no entity of its name in the store.
MissingWarns(k) == {k}

\* Lines 177-202: one turn of the loop. A layer is looked up in the store
\* under its validated name; its metadata is copied when the entity is there
\* and writable, and every other case is a warning naming the layer.
PreserveStep ==
    /\ pc = "preserve"
    /\ mi <= Len(layers)
    /\ stages' = Started("metadata")
    /\ LET target_fc == ValidateTableName(layers[mi].name)
       IN \/ /\ layers[mi].kind = "group"
             /\ UNCHANGED <<preserved, warnings>>
          \/ /\ layers[mi].kind # "group"
             /\ target_fc \in Names(store)
             /\ \/ preserved' = preserved \cup {mi} /\ UNCHANGED warnings
                \/ warnings' = warnings \cup {mi} /\ UNCHANGED preserved
          \/ /\ layers[mi].kind # "group"
             /\ target_fc \notin Names(store)
             /\ warnings' = warnings \cup MissingWarns(mi)
             /\ UNCHANGED preserved
    /\ mi' = mi + 1
    /\ UNCHANGED <<argVars, pc, result, error, fsVars, temp_map, identifyVars, zVars,
                   renameVars, description, gdb_md>>

\* ---------------------------------------------------- add_extent_metadata
\* str() of a whole-number coordinate, which the engine holds as a double.
Fmt(v) == ToString(v) \o ".0"

\* Lines 216-220: the bounds text, as tokens.
ExtentDesc(e) ==
    <<"Data has been clipped to the following extent:", "\n",
      "XMin: " \o Fmt(e[1]), "\n",
      "YMin: " \o Fmt(e[2]), "\n",
      "XMax: " \o Fmt(e[3]), "\n",
      "YMax: " \o Fmt(e[4])>>

\* Line 223 with the old text dropped.
NewDescriptionReplace(current_desc, extent_desc) == extent_desc

\* Lines 222-223: the old text, a blank line, the bounds text.
NewDescription(current_desc, extent_desc) ==
    IF current_desc # << >>
    THEN current_desc \o <<"\n", "\n">> \o extent_desc
    ELSE extent_desc

\* Lines 242-243 and 204-228, then the return of process_existing_gdb (line
\* 285). The store-level metadata is writable, read-only, or raises (the
\* warning of line 228 names no layer). A store handed in directly is
\* processed Passes times in succession.
AddExtentMetadata ==
    /\ pc = "preserve"
    /\ mi > Len(layers)
    /\ stages' = Started("metadata")
    /\ IF gdb_extent = None
       THEN UNCHANGED <<description, gdb_md>>
       ELSE \/ /\ gdb_md' = "writable"
               /\ description' = NewDescription(description, ExtentDesc(gdb_extent))
            \/ /\ gdb_md' \in {"readonly", "error"}
               /\ UNCHANGED description
    /\ passes' = passes + 1
    /\ IF entry = "gdb" /\ passes + 1 < Passes
       THEN pc' = "gdb" /\ UNCHANGED <<result, error>>
       ELSE pc' = "done" /\ result' = "returned"
    /\ UNCHANGED <<argVars, error, fsVars, temp_map, identifyVars, zVars, filenames,
                   ni, listings, mi, preserved, warnings>>

\* ---------------------------------------------------------- specification
Next ==
    \/ MainResolveExtent
    \/ IdentifyStep
    \/ IdentifyReturn
    \/ PackageEnter
    \/ PackageMap
    \/ ExtractEnter
    \/ ExtractCopy
    \/ Extract7z
    \/ ExtractRelocate
    \/ ZLayerStep
    \/ ExtractCleanup
    \/ ExtractExcept
    \/ GdbEnter
    \/ NormalizeStep
    \/ PreserveStep
    \/ AddExtentMetadata

Spec == Init /\ [][Next]_vars

TypeOK ==
    /\ pc \in {"main", "identify", "package", "package_map", "extract", "copy",
               "unzip", "relocate", "z_loop", "cleanup", "except", "gdb",
               "rename", "preserve", "done"}
    /\ result \in {"running", "returned", "raised"}
    /\ gdb_at \in {"none", "extracted", "canonical"}
    /\ \A a, b \in DOMAIN store : a # b => store[a] # store[b]

\* ------------------------------------------------------------------ claims
\* The script ran to its end without an exception.
MainCompleted == entry = "main" /\ pc = "done" /\ result = "returned"

\* Entities of the store that correspond to the layer at position k: those
\* named by the layer's validated name, which is how the program itself
\* looks a layer up in the store.
EntitiesOf(k) == {j \in DOMAIN store : store[j] = ValidateTableName(layers[k].name)}

\* C1: after a full run of the script that ends without a fatal error, every
\* non-group layer of the map either has exactly one entity in the store or
\* was named in a warning during the run.
C1_Coverage ==
    MainCompleted =>
        \A k \in DOMAIN layers :
            layers[k].kind # "group" =>
                Cardinality(EntitiesOf(k)) = 1 \/ k \in warnings

\* A completed run with one layer archived without any warning and another
\* absent from the store and warned about.
C1_Witness ==
    /\ MainCompleted
    /\ \E k \in DOMAIN layers :
        layers[k].kind # "group" /\ Cardinality(EntitiesOf(k)) = 1 /\ k \notin warnings
    /\ \E k \in DOMAIN layers :
        layers[k].kind # "group" /\ EntitiesOf(k) = {} /\ k \in warnings

\* The tag pattern, as the claims state it: an uppercase L and a digit at the
\* start of the name.
TagPrefixed(name) == Len(name) >= 2 /\ name[1] = "L" /\ name[2] \in Digit

\* The first rename loop over a store handed in directly has just finished:
\* filenames is the listing before it and store the listing after it.
FirstPassDone == entry = "gdb" /\ pc = "preserve" /\ passes = 0

TaggedRoads == <<"L", "3", "R", "o", "@", "#", "a", "d", "s">>

\* C2 as stated: a second run of the normalizer over any store leaves the
\* names the first run left.
C2_Idempotent ==
    entry = "gdb" =>
        \A k \in 2..Len(listings) : listings[k] = listings[k - 1]

\* C2 as amended: a further run of the normalizer renames nothing when no
\* name left by the run before it still begins with the tag.
C2_IdempotentOnRepaired ==
    entry = "gdb" =>
        \A k \in 2..Len(listings) :
            (\A j \in DOMAIN listings[k - 1] : ~TagPrefixed(listings[k - 1][j]))
                => listings[k] = listings[k - 1]

\* Two runs finished, the first renamed L3Ro@#ads, the second changed nothing.
C2_Witness ==
    /\ entry = "gdb"
    /\ Len(listings) >= 2
    /\ listings[2] = listings[1]
    /\ \A j \in DOMAIN listings[1] : ~TagPrefixed(listings[1][j])
    /\ \E j \in DOMAIN listings[1] : listings[1][j] = Slice(TaggedRoads, 2)

\* C3 as stated: the entity L3Ro@#ads is renamed to ads.
C3_RenamedToAds ==
    FirstPassDone =>
        \A k \in DOMAIN filenames :
            filenames[k] = TaggedRoads => store[k] = <<"a", "d", "s">>

\* C3 as amended: the entity L3Ro@#ads loses its tag only and is renamed to
\* Ro@#ads, whose first character is alphabetic already.
C3_RenamedToTaglessName ==
    FirstPassDone =>
        \A k \in DOMAIN filenames :
            filenames[k] = TaggedRoads
                => store[k] = <<"R", "o", "@", "#", "a", "d", "s">>

\* The rename loop has finished over a store that held L3Ro@#ads.
C3_Witness ==
    /\ FirstPassDone
    /\ \E k \in DOMAIN filenames :
        filenames[k] = TaggedRoads /\ store[k] = <<"R", "o", "@", "#", "a", "d", "s">>

\* A tag followed by one character that is not alphabetic.
Degenerate(name) == TagPrefixed(name) /\ Len(name) = 3 /\ ~IsAlpha(name[3])

\* C4: a degenerate entity at position i of the listing is renamed to
\* No_Alpha_Characters_Layer_<i>, with i in decimal.
C4_IndexedName ==
    FirstPassDone =>
        \A k \in DOMAIN filenames :
            Degenerate(filenames[k])
                => store[k] = SubSeq(NoAlphaName, 1, 26) \o Decimal(k - 1)

\* C5: in the Z-enabled layer loop every layer of the list is taken up in
\* list order, a failure is a warning and never leaves the loop as an
\* exception, and once the loop is over the store holds an entity for every
\* layer whose processing succeeded.
C5_ZFailuresIsolated ==
    /\ (pc \in {"cleanup", "except"} /\ gdb_at = "canonical") =>
          /\ attempted = arg_z_layers
          /\ \A l \in succeeded : ValidateTableName(layers[l].name) \in Names(store)
          /\ \A k \in DOMAIN attempted :
                attempted[k] \notin succeeded => attempted[k] \in warnings
    /\ (pc = "except" /\ gdb_at = "canonical") => error = "remove"

\* The loop is over, one layer failed and a later one succeeded.
C5_Witness ==
    /\ pc = "cleanup"
    /\ \E a, b \in DOMAIN attempted :
        /\ a < b
        /\ attempted[a] \notin succeeded
        /\ attempted[a] \in warnings
        /\ attempted[b] \in succeeded
        /\ ValidateTableName(layers[attempted[b]].name) \in Names(store)

\* The calls of the extractor that raise inside its try block.
GuardedErrors == {"copy2", "extract_7z", "find_geodatabase", "move", "remove"}

\* The calls of the extractor that raise before its try block.
UnguardedErrors == {"exists", "find_7zip_path"}

\* The extractor has returned the path of the store to its caller.
ExtractorReturned ==
    \/ entry = "extract" /\ pc = "done" /\ result = "returned"
    \/ entry = "main" /\ pc = "gdb"

\* The extractor has raised to its caller.
ExtractorRaised ==
    /\ pc = "done"
    /\ result = "raised"
    /\ error \in GuardedErrors \cup UnguardedErrors

ContainsBounds(text, e) ==
    \A b \in 1..4 :
        \E j \in DOMAIN text :
            text[j] = <<"XMin", "YMin", "XMax", "YMax">>[b] \o ": " \o ToString(e[b]) \o ".0"

\* new is old unchanged, then a blank line when old is not empty, then a
\* text that holds the four bounds of e.
AppendedBounds(old, new, e) ==
    LET n == Len(old)
        start == IF n = 0 THEN 0 ELSE n + 2
    IN /\ Len(new) > start
       /\ SubSeq(new, 1, n) = old
       /\ n > 0 => new[n + 1] = "\n" /\ new[n + 2] = "\n"
       /\ new[start + 1] # "\n"
       /\ ContainsBounds(Slice(new, start), e)

\* C7: when process_metadata is given an Extent and the store-level metadata
\* is writable, the description afterwards is the description before it,
\* a blank line, and the bounds text with XMin, YMin, XMax and YMax; with
\* no description before it, it is the bounds text alone.
C7_ExtentAppended ==
    [][(pc = "preserve" /\ pc' # "preserve" /\ gdb_extent # None /\ gdb_md' = "writable")
        => AppendedBounds(description, description', gdb_extent)]_vars

\* The bounds 0, 0, 10, 10 were appended once to the text "Archived map".
C7_Witness ==
    /\ entry = "gdb"
    /\ passes = 1
    /\ gdb_md = "writable"
    /\ gdb_extent = <<0, 0, 10, 10>>
    /\ Len(description) = 12
    /\ description[1] = "Archived map"
    /\ description[2] = "\n"
    /\ description[3] = "\n"
    /\ \E j \in DOMAIN description : description[j] = "XMax: 10.0"

\* The stages of seq come in the order that order lists them.
InOrder(seq, order) ==
    \A a, b \in DOMAIN seq :
        a < b => (CHOOSE k \in DOMAIN order : order[k] = seq[a])
                   < (CHOOSE k \in DOMAIN order : order[k] = seq[b])

\* C8 as stated: the stages run in the order package, extract, normalize,
\* reconcile, metadata, and the normalizer has finished before the
\* reconciler copies a layer.
C8_NormalizeBeforeReconcile ==
    entry = "main" =>
        /\ InOrder(stages, <<"package", "extract", "normalize", "reconcile", "metadata">>)
        /\ pc = "z_loop" => Len(listings) >= 1

\* C8 as amended: the stages run in the order package, extract, reconcile,
\* normalize, metadata, and the reconciler has taken up every Z-enabled
\* layer before the normalizer starts.
C8_ReconcileBeforeNormalize ==
    entry = "main" =>
        /\ InOrder(stages, <<"package", "extract", "reconcile", "normalize", "metadata">>)
        /\ pc \in {"gdb", "rename", "preserve"} => attempted = arg_z_layers

\* A completed run of all five stages in which the reconciler wrote the
\* entity L3D and the normalizer stripped its tag.
C8_Witness ==
    /\ MainCompleted
    /\ stages = <<"package", "extract", "reconcile", "normalize", "metadata">>
    /\ \E l \in succeeded : layers[l].name = <<"L", "3", "D">>
    /\ <<"D">> \in Names(store)
    /\ <<"L", "3", "D">> \notin Names(store)

\* C9: a full run that resolved an Extent and clipped the package to it ends
\* with the bounds in the store-level description.
C9_ExtentInDescription ==
    (MainCompleted /\ extent # None) => ContainsBounds(description, extent)

\* The layer at position k is in the list.
InList(list, k) == \E j \in DOMAIN list : list[j] = k

\* The list holds layer positions in map order, none twice.
InMapOrder(list) == \A a, b \in DOMAIN list : a < b => list[a] < list[b]

\* C11: in identify_z_layers no group layer is in either list; a non-group
\* layer whose probe succeeded is in exactly one list, the Z-enabled list
\* iff the probe reports Z values; a layer whose probe raised is in neither
\* list and is named in a warning, and the layers after it are still
\* classified; each list keeps the map's layer order.
C11_Classifier ==
    pc = "identify" =>
        /\ \A k \in DOMAIN layers :
            /\ layers[k].kind = "group" =>
                  ~InList(z_layers, k) /\ ~InList(non_z_layers, k)
            /\ (layers[k].kind # "group" /\ k < li /\ k \notin probe_failed) =>
                  /\ InList(z_layers, k) <=> layers[k].kind = "z"
                  /\ InList(non_z_layers, k) <=> layers[k].kind = "flat"
            /\ k \in probe_failed =>
                  /\ ~InList(z_layers, k)
                  /\ ~InList(non_z_layers, k)
                  /\ k \in warnings
            /\ k >= li => ~InList(z_layers, k) /\ ~InList(non_z_layers, k)
        /\ InMapOrder(z_layers)
        /\ InMapOrder(non_z_layers)

\* The loop is over; the probe of one layer raised and a later layer was
\* classified as Z-enabled.
C11_Witness ==
    /\ pc = "identify"
    /\ li > Len(layers)
    /\ \E a, b \in DOMAIN layers :
        /\ a < b
        /\ a \in probe_failed
        /\ a \in warnings
        /\ InList(z_layers, b)

\* C12: whenever the processing of a Z-enabled layer has ended, by success or
\* by a failure at any step, the scratch workspace memory\tempCopy does not
\* exist, so no layer starts with the scratch content of an earlier one and
\* none is left when the loop is over.
C12_ScratchTornDown ==
    Len(attempted) > 0 => ~scratch

\* C13: for every entity name that begins with the tag, the two-character
\* name and the names with no alphabetic character after the tag included,
\* the strip loop ends without raising and the entity is renamed to a name
\* that is not empty and begins with an alphabetic character.
C13_StripLoopTotal ==
    /\ error # "IndexError"
    /\ FirstPassDone =>
        \A k \in DOMAIN filenames :
            TagPrefixed(filenames[k]) =>
                store[k] # << >> /\ IsAlpha(store[k][1])

====
